---- MODULE Spec2Model ----
(***************************************************************************)
(* ABRoot: the upgrade transaction of ABSystem (core/system.go), the       *)
(* cleanup queue, the chroot session (core/chroot.go), the grub recipe     *)
(* generator (core/grub.go) and AtomicSwap (core/atomic-io.go).            *)
(*                                                                         *)
(* Upgrade is modelled one action per stage (and per failure site inside a *)
(* stage), so that the states between the stages are states of the model.  *)
(* RunCleanUpQueue is a public method the caller may run between two       *)
(* Upgrade calls; Upgrade itself never calls it.                           *)
(***************************************************************************)
EXTENDS Integers, Sequences, FiniteSets, TLC

(***************************************************************************)
(* Bounds of the model.                                                    *)
(***************************************************************************)
\* number of Upgrade calls one behaviour may start
MaxCalls == 2
\* number of chroot sessions one behaviour may open
MaxOpens == 2

(***************************************************************************)
(* Values.                                                                 *)
(***************************************************************************)
Parts == {"present", "future", "boot"}

\* mount points: <<directory, n>>; n distinguishes the /tmp/<uuid> directories
NoMount     == <<"", 0>>
RootMount   == <<"/", 0>>
FutureMount == <<"/part-future/", 0>>
TmpMount(u) == <<"/tmp/", u>>

Digests == {"sha:A", "sha:B"}
FinalCmds == {"", "apt-get install -y vim"}

NoFile == [kind |-> "none"]

\* no Close has run
NoClose == [kind |-> "none"]

\* file names are sequences of character codes, compared as Go compares strings
Vmlinuz == <<118, 109, 108, 105, 110, 117, 122, 45>>
Kernel69  == Vmlinuz \o <<54, 46, 57>>
Kernel610 == Vmlinuz \o <<54, 46, 49, 48>>
\* what boot/ of a built tree may hold: no kernel, or two
KernelSets == {{}, {Kernel69, Kernel610}}

ABImage(digest, image) == [kind |-> "abimage", digest |-> digest, image |-> image]

Tree(digest, content, kernels) ==
    [kind |-> "tree", digest |-> digest, content |-> content, kernels |-> kernels,
     grubd |-> FALSE, recipe |-> NoFile, grubcfg |-> FALSE, etc |-> {}]

PartialTree == [kind |-> "partial"]

GrubCfg(id) == [kind |-> "cfg", id |-> id]

\* settings.Cnf.Registry + "/" + settings.Cnf.Name + ":" + settings.Cnf.Tag
fullImageName == "registry/name:tag"

ReservedMounts == <<"/dev", "/dev/pts", "/proc", "/run", "/sys">>

etcFiles == <<"passwd", "group", "shells", "shadow", "subuid", "subgid">>

VARIABLES
    pc,             \* position of the running Upgrade call, "idle" when none runs
    lastOp,         \* what happened last: a handler returned, or the registry changed
    ret,            \* what it returned: "nil" or the error
    verbose,        \* the last PrintVerbose error label of Upgrade
    queue,          \* var queue []QueuedFunction
    CurImage,       \* ABSystem.CurImage.Digest
    registry,       \* the digest the registry serves
    mountPoint,     \* Partition.MountPoint of the three partitions
    fs,             \* the files of the three partitions
    binds,          \* reserved mounts bound under <future>/.system
    rootBinds,      \* number of "mount --bind / /" made inside the chroot
    podmanImage,    \* local of Upgrade: digest of the pulled image
    containerFile,  \* local of Upgrade: the composed recipe
    chroot,         \* local of Upgrade: the open session's root, or NoMount
    uuid,           \* local of Upgrade: the stage-9 directory, 0 before
    tmpDirs,        \* directories made under /tmp
    calls,          \* Upgrade calls started
    pre,            \* fs, mounts and queue when the running/last Upgrade started
    done,           \* steps the running/last Upgrade call has completed
    built,          \* the tree stage 4 of the running/last call materialised
    drainLog,       \* entries the last RunCleanUpQueue executed, in order
    closeLog        \* the last Chroot.Close: the binds before, the umounts tried

vars == <<pc, lastOp, ret, verbose, queue, CurImage, registry, mountPoint, fs,
          binds, rootBinds, podmanImage, containerFile, chroot, uuid, tmpDirs,
          calls, pre, done, built, drainLog, closeLog>>

locals == <<podmanImage, containerFile, chroot, uuid>>
history == <<pre, done, built>>


(***************************************************************************)
(* Paths and files.  A path is a mount point and a name below it; the     *)
(* partition a path lies on is the one mounted at its mount point.         *)
(***************************************************************************)
Path(mp, name) == [mp |-> mp, name |-> name]

Resolve(mp) ==
    IF mp # NoMount /\ \E p \in Parts : mountPoint[p] = mp
    THEN CHOOSE p \in Parts : mountPoint[p] = mp
    ELSE "none"

\* os.Open / os.Stat: what a path names, NoFile when it names nothing
Stat(f, path) ==
    IF Resolve(path.mp) = "none" THEN NoFile ELSE f[Resolve(path.mp)][path.name]

\* f with path made to name c; a path under no mounted partition is a
\* directory of the running root outside the files the model tracks
WriteFile(f, path, c) ==
    IF Resolve(path.mp) = "none" THEN f
    ELSE [f EXCEPT ![Resolve(path.mp)][path.name] = c]

\* a rename that is no exchange: src takes what dst named, dst names nothing
AtomicSwap_Rename(f, src, dst, r) ==
    IF Stat(f, src) = NoFile THEN [fs |-> f, err |-> "ENOENT"]
    ELSE IF Stat(f, dst) = NoFile THEN [fs |-> f, err |-> "ENOENT"]
    ELSE IF Resolve(src.mp) # Resolve(dst.mp) THEN [fs |-> f, err |-> "EXDEV"]
    ELSE IF r # "ok" THEN [fs |-> f, err |-> r]
    ELSE [fs |-> WriteFile(WriteFile(f, src, Stat(f, dst)), dst, NoFile), err |-> "nil"]

\* an exchange done in two renames, seen between them: src names what dst
\* named while dst still names its own
AtomicSwap_HalfSwap(f, src, dst, r) ==
    IF Stat(f, src) = NoFile THEN [fs |-> f, err |-> "ENOENT"]
    ELSE IF Stat(f, dst) = NoFile THEN [fs |-> f, err |-> "ENOENT"]
    ELSE IF Resolve(src.mp) # Resolve(dst.mp) THEN [fs |-> f, err |-> "EXDEV"]
    ELSE IF r # "ok" THEN [fs |-> f, err |-> r]
    ELSE [fs |-> WriteFile(f, src, Stat(f, dst)), err |-> "nil"]

\* AtomicSwap(src, dst): both paths are opened, then renameat2 with
\* RENAME_EXCHANGE, whose outcome r is the kernel's ("ok" or an errno)
AtomicSwap(f, src, dst, r) ==
    IF Stat(f, src) = NoFile THEN [fs |-> f, err |-> "ENOENT"]
    ELSE IF Stat(f, dst) = NoFile THEN [fs |-> f, err |-> "ENOENT"]
    ELSE IF Resolve(src.mp) # Resolve(dst.mp) THEN [fs |-> f, err |-> "EXDEV"]
    ELSE IF r # "ok" THEN [fs |-> f, err |-> r]
    ELSE [fs |-> WriteFile(WriteFile(f, src, Stat(f, dst)), dst, Stat(f, src)),
          err |-> "nil"]

RenameOutcomes == {"ok", "EINVAL"}

\* AtomicSwap with relative paths: renameat2 resolves src below the descriptor
\* of src itself and dst below the descriptor of dst; a regular file is no
\* directory, and a directory does not hold an entry of its own name
AtomicSwapRelative(f, src, dst) ==
    IF Stat(f, src) = NoFile THEN [fs |-> f, err |-> "ENOENT"]
    ELSE IF Stat(f, dst) = NoFile THEN [fs |-> f, err |-> "ENOENT"]
    ELSE IF Stat(f, src).kind \in {"tree", "partial"} THEN [fs |-> f, err |-> "ENOENT"]
    ELSE [fs |-> f, err |-> "ENOTDIR"]

(***************************************************************************)
(* Collaborators whose code is outside the sources: modelled from their    *)
(* contracts.                                                              *)
(***************************************************************************)
\* Registry.HasUpdate(digest)
HasUpdate(digest) == registry # digest

\* ABRootManager.GetFuture / GetBoot
partFuture == [IdentifiedAs |-> "future", Uuid |-> "uuid-future", Device |-> "/dev/sdb"]
partBoot   == [IdentifiedAs |-> "boot", Uuid |-> "uuid-boot", Device |-> "/dev/sdc"]

\* Partition.Mount(target): the new mountPoint and the error
Mount(part, target, io) ==
    IF mountPoint[part] # NoMount THEN [mountPoint |-> mountPoint, err |-> "AlreadyMounted"]
    ELSE IF io # "ok" THEN [mountPoint |-> mountPoint, err |-> io]
    ELSE [mountPoint |-> [mountPoint EXCEPT ![part] = target], err |-> "nil"]

\* Partition.Unmount()
Unmount(mp, part, io) ==
    IF mp[part] = NoMount THEN [mountPoint |-> mp, err |-> "NotMounted"]
    ELSE IF io # "ok" THEN [mountPoint |-> mp, err |-> io]
    ELSE [mountPoint |-> [mp EXCEPT ![part] = NoMount], err |-> "nil"]

\* ABImage.WriteTo(dest, suffix): the file it writes
ABImageFile(suffix) ==
    IF suffix = "" THEN "abimage.abr"
    ELSE IF suffix = "new" THEN "abimage-new.abr"
    ELSE "abimage-other.abr"

(***************************************************************************)
(* Cleanup queue.                                                          *)
(***************************************************************************)
QueuedFunction(name, values) == [Name |-> name, Values |-> values]

AddToCleanUpQueue(q, name, values) == Append(q, QueuedFunction(name, values))

ResetQueue == <<>>

(***************************************************************************)
(* Upgrade.                                                                *)
(***************************************************************************)
\* "return err" after PrintVerbose(label): the locals die with the frame
Return(err, label) ==
    /\ pc' = "idle"
    /\ lastOp' = "Upgrade"
    /\ ret' = err
    /\ verbose' = label
    /\ podmanImage' = "" /\ containerFile' = NoFile /\ chroot' = NoFile /\ uuid' = 0

Goto(stage) ==
    /\ pc' = stage
    /\ UNCHANGED <<lastOp, ret, verbose>>

\* a check that always finds an update
CheckUpdate_Always == TRUE

CheckUpdate == HasUpdate(CurImage)

\* Upgrade up to the end of stage 0: ResetQueue, then CheckUpdate
Stage0 ==
    /\ pc = "idle"
    /\ calls < MaxCalls
    /\ calls' = calls + 1
    /\ queue' = ResetQueue
    /\ pre' = [fs |-> fs, mountPoint |-> mountPoint, binds |-> binds,
               rootBinds |-> rootBinds, queue |-> queue, tmpDirs |-> tmpDirs]
    /\ done' = {}
    /\ built' = NoFile
    /\ IF ~CheckUpdate
       THEN Return("no update available", "error")
       ELSE /\ pc' = "stage1"
            /\ lastOp' = "none" /\ ret' = "none" /\ verbose' = "none"
            /\ UNCHANGED locals
    /\ drainLog' = <<>>
    /\ closeLog' = NoClose
    /\ UNCHANGED <<CurImage, registry, mountPoint, fs, binds, rootBinds, tmpDirs>>

\* Stage 1: GetFuture, GetBoot, mount future at /part-future/, register umountFuture
Stage1 ==
    /\ pc = "stage1"
    /\ \E getFuture \in {"nil", "TopologyError"}, getBoot \in {"nil", "TopologyError"},
          io \in {"ok", "IO"} :
         LET m == Mount("future", FutureMount, io) IN
         IF getFuture # "nil"
         THEN Return(getFuture, "error(2)") /\ UNCHANGED <<mountPoint, queue, done>>
         ELSE IF getBoot # "nil"
         THEN Return(getBoot, "error(3)") /\ UNCHANGED <<mountPoint, queue, done>>
         ELSE IF m.err # "nil"
         THEN Return(m.err, "error(4)") /\ UNCHANGED <<mountPoint, queue, done>>
         ELSE /\ mountPoint' = m.mountPoint
              /\ queue' = AddToCleanUpQueue(queue, "umountFuture", <<partFuture>>)
              /\ done' = done \cup {"mountFuture"}
              /\ Goto("stage2")
              /\ UNCHANGED locals
    /\ UNCHANGED <<CurImage, registry, fs, binds, rootBinds, tmpDirs, calls,
                   pre, built, drainLog, closeLog>>

\* Stage 2: podman.Pull(fullImageName)
Stage2 ==
    /\ pc = "stage2"
    /\ \E pull \in {"nil", "ImagePull"} :
         IF pull # "nil"
         THEN Return(pull, "error(5)")
         ELSE /\ podmanImage' = registry
              /\ Goto("stage3")
              /\ UNCHANGED <<containerFile, chroot, uuid>>
    /\ UNCHANGED <<queue, CurImage, registry, mountPoint, fs, binds, rootBinds, tmpDirs,
                   calls, pre, done, built, drainLog, closeLog>>

\* podman.NewContainerFile(image, labels, args, content)
NewContainerFile(image, labels, args, content) ==
    [kind |-> "containerfile", image |-> image, labels |-> labels, args |-> args,
     content |-> content]

\* Stage 3: the Containerfile with the user's packages
Stage3 ==
    /\ pc = "stage3"
    /\ \E GetFinalCmd \in FinalCmds :
         LET pkgsFinal == IF GetFinalCmd = "" THEN "true" ELSE GetFinalCmd
             content == <<"RUN", pkgsFinal>>
         IN containerFile' = NewContainerFile(fullImageName,
                                 <<"maintainer", "'Generated by ABRoot'">>, <<>>, content)
    /\ Goto("stage4")
    /\ UNCHANGED <<podmanImage, chroot, uuid>>
    /\ UNCHANGED <<queue, CurImage, registry, mountPoint, fs, binds, rootBinds, tmpDirs,
                   calls, pre, done, built, drainLog, closeLog>>

\* the mount point of the wrong root
PresentMountPoint == mountPoint["present"]

\* partFuture.Partition.MountPoint
FutureMountPoint == mountPoint[partFuture.IdentifiedAs]

\* the paths Upgrade builds from partFuture.Partition.MountPoint
SystemPath(mp)      == Path(mp, ".system")
SystemNewPath(mp)   == Path(mp, ".system.new")
OldABImagePath(mp)  == Path(mp, ABImageFile(""))
NewABImagePath(mp)  == Path(mp, "abimage-new.abr")

\* the descriptor exchanged where the rootfs should be
FirstExchange_Descriptor(mp) == <<OldABImagePath(mp), NewABImagePath(mp)>>

\* the arguments of the two AtomicSwap calls of stage 6, in the order of the calls
FirstExchange(mp)  == <<SystemPath(mp), SystemNewPath(mp)>>
SecondExchange(mp) == <<OldABImagePath(mp), NewABImagePath(mp)>>

\* Stage 4: podman.GenerateRootfs into <future>/.system.new/
Stage4 ==
    /\ pc = "stage4"
    /\ \E gen \in {"nil", "RootfsBuild"}, partial \in BOOLEAN, kernels \in KernelSets :
         LET out == SystemNewPath(FutureMountPoint)
             tree == Tree(podmanImage, containerFile.content, kernels) IN
         IF gen # "nil"
         THEN /\ fs' = IF partial THEN WriteFile(fs, out, PartialTree) ELSE fs
              /\ Return(gen, "error(6)")
              /\ UNCHANGED <<done, built>>
         ELSE /\ fs' = WriteFile(fs, out, tree)
              /\ built' = tree
              /\ done' = done \cup {"rootfs"}
              /\ Goto("stage5")
              /\ UNCHANGED locals
    /\ UNCHANGED <<queue, CurImage, registry, mountPoint, binds, rootBinds, tmpDirs,
                   calls, pre, drainLog, closeLog>>

\* the descriptor written without a suffix
NewSuffix_Empty == ""

\* the suffix Upgrade passes to WriteTo
NewSuffix == "new"

\* Stage 5: abimage.WriteTo(<future>, "new")
Stage5 ==
    /\ pc = "stage5"
    /\ \E write \in {"nil", "DescriptorWrite"} :
         LET abimage == ABImage(podmanImage, fullImageName)
             file == Path(FutureMountPoint, ABImageFile(NewSuffix)) IN
         IF write # "nil"
         THEN Return(write, "error(7)") /\ UNCHANGED <<fs, done>>
         ELSE /\ fs' = WriteFile(fs, file, abimage)
              /\ done' = done \cup {"abimage"}
              /\ Goto("stage6a")
              /\ UNCHANGED locals
    /\ UNCHANGED <<queue, CurImage, registry, mountPoint, binds, rootBinds, tmpDirs,
                   calls, pre, built, drainLog, closeLog>>


\* Stage 6, first exchange: .system/ with .system.new/
Stage6a ==
    /\ pc = "stage6a"
    /\ \E r \in RenameOutcomes :
         LET x == FirstExchange(FutureMountPoint)
             sw == AtomicSwap(fs, x[1], x[2], r) IN
         IF sw.err # "nil"
         THEN Return(sw.err, "error(8)") /\ UNCHANGED <<fs, done>>
         ELSE /\ fs' = sw.fs
              /\ done' = done \cup {"swapSystem"}
              /\ Goto("stage6b")
              /\ UNCHANGED locals
    /\ UNCHANGED <<queue, CurImage, registry, mountPoint, binds, rootBinds, tmpDirs,
                   calls, pre, built, drainLog, closeLog>>

\* Stage 6, second exchange: abimage.abr with abimage-new.abr
Stage6b ==
    /\ pc = "stage6b"
    /\ \E r \in RenameOutcomes :
         LET x == SecondExchange(FutureMountPoint)
             sw == AtomicSwap(fs, x[1], x[2], r) IN
         IF sw.err # "nil"
         THEN Return(sw.err, "error(9)") /\ UNCHANGED <<fs, done>>
         ELSE /\ fs' = sw.fs
              /\ done' = done \cup {"swapABImage"}
              /\ Goto("stage7")
              /\ UNCHANGED locals
    /\ UNCHANGED <<queue, CurImage, registry, mountPoint, binds, rootBinds, tmpDirs,
                   calls, pre, built, drainLog, closeLog>>

(***************************************************************************)
(* The grub recipe (core/grub.go).                                         *)
(***************************************************************************)
RECURSIVE StrLess(_, _)
\* a < b for Go strings: byte-wise lexicographic
StrLess(a, b) ==
    IF a = <<>> THEN b # <<>>
    ELSE IF b = <<>> THEN FALSE
    ELSE IF Head(a) # Head(b) THEN Head(a) < Head(b)
    ELSE StrLess(Tail(a), Tail(b))

\* filepath.Glob(rootPath/boot/vmlinuz-*), as base names
GlobKernels(f, rootPath) ==
    IF Stat(f, rootPath).kind = "tree" THEN Stat(f, rootPath).kernels ELSE {}

RECURSIVE MaxVersion(_, _)
MaxVersion(files, maxVersion) ==
    IF files = {} THEN maxVersion
    ELSE LET version == CHOOSE x \in files : TRUE IN
         MaxVersion(files \ {version},
                    IF StrLess(maxVersion, version) THEN version ELSE maxVersion)

getKernelVersion(f, rootPath) == MaxVersion(GlobKernels(f, rootPath), <<>>)

InitrdImg == <<105, 110, 105, 116, 114, 100, 46, 105, 109, 103, 45>>

\* fmt.Sprintf(template, entryName, rootUuid, kernelVersion, rootUuid, kernelVersion)
Recipe(entryName, rootUuid, kernelVersion) ==
    [kind |-> "recipe", menuentry |-> entryName, search |-> rootUuid,
     linux |-> Vmlinuz \o kernelVersion, root |-> rootUuid,
     initrd |-> InitrdImg \o kernelVersion]

\* a recipe generator that makes etc/grub.d before it looks for a kernel
generateGrubRecipe_MkdirFirst(f, rootPath, rootUuid, entryName, mkdir, write) ==
    LET kernelVersion == getKernelVersion(f, rootPath)
        root == Stat(f, rootPath) IN
    IF mkdir # "nil" THEN [fs |-> f, err |-> mkdir]
    ELSE IF kernelVersion = <<>>
    THEN [fs |-> WriteFile(f, rootPath, [root EXCEPT !.grubd = TRUE]),
          err |-> "could not get kernel version"]
    ELSE IF write # "nil"
    THEN [fs |-> WriteFile(f, rootPath, [root EXCEPT !.grubd = TRUE]), err |-> write]
    ELSE [fs |-> WriteFile(f, rootPath,
                    [root EXCEPT !.grubd = TRUE,
                                 !.recipe = Recipe(entryName, rootUuid, kernelVersion)]),
          err |-> "nil"]

\* generateGrubRecipe: mkdir and write are the outcomes of MkdirAll and WriteFile
generateGrubRecipe(f, rootPath, rootUuid, entryName, mkdir, write) ==
    LET kernelVersion == getKernelVersion(f, rootPath)
        root == Stat(f, rootPath) IN
    IF kernelVersion = <<>>
    THEN [fs |-> f, err |-> "could not get kernel version"]
    ELSE IF mkdir # "nil" THEN [fs |-> f, err |-> mkdir]
    ELSE IF write # "nil"
    THEN [fs |-> WriteFile(f, rootPath, [root EXCEPT !.grubd = TRUE]), err |-> write]
    ELSE [fs |-> WriteFile(f, rootPath,
                    [root EXCEPT !.grubd = TRUE,
                                 !.recipe = Recipe(entryName, rootUuid, kernelVersion)]),
          err |-> "nil"]

\* Stage 7, generateGrubRecipe under the new .system/
Stage7 ==
    /\ pc = "stage7"
    /\ \E mkdir \in {"nil", "EACCES"}, write \in {"nil", "ENOSPC"} :
         LET mp == FutureMountPoint
             g == generateGrubRecipe(fs, SystemPath(mp), partFuture.Uuid,
                                     partFuture.IdentifiedAs, mkdir, write) IN
         /\ fs' = g.fs
         /\ IF g.err # "nil"
            THEN Return(g.err, "error(10)") /\ UNCHANGED done
            ELSE /\ done' = done \cup {"recipe"}
                 /\ Goto("stage7chroot")
                 /\ UNCHANGED locals
    /\ UNCHANGED <<queue, CurImage, registry, mountPoint, binds, rootBinds, tmpDirs,
                   calls, pre, built, drainLog, closeLog>>


(***************************************************************************)
(* The chroot session (core/chroot.go).                                    *)
(***************************************************************************)
Chroot(root, rootUuid, rootDevice) ==
    [kind |-> "chroot", root |-> root, rootUuid |-> rootUuid, rootDevice |-> rootDevice]

\* the reserved mounts that are mounted below the reserved mount m
Below(m) == IF m = "/dev" THEN {"/dev/pts"} ELSE {}

RECURSIVE BindReserved(_, _, _)
\* the loop of NewChroot from index i on: failBind is the index of the
\* "mount --bind" that fails, 0 when none does
BindReserved(b, i, failBind) ==
    IF i > Len(ReservedMounts) THEN [binds |-> b, err |-> "nil"]
    ELSE IF i = failBind THEN [binds |-> b, err |-> "exit status 32"]
    ELSE BindReserved(b \cup {ReservedMounts[i]}, i + 1, failBind)

\* NewChroot(root, rootUuid, rootDevice): execute is the outcome of
\* Execute("mount", "--bind", "/", "/") inside the chroot
NewChroot(f, b, rb, root, rootUuid, rootDevice, execute, failBind) ==
    IF Stat(f, root) = NoFile
    THEN [chroot |-> NoFile, binds |-> b, rootBinds |-> rb, err |-> "ENOENT"]
    ELSE IF execute # "nil"
    THEN [chroot |-> NoFile, binds |-> b, rootBinds |-> rb, err |-> execute]
    ELSE LET l == BindReserved(b, 1, failBind) IN
         IF l.err # "nil"
         THEN [chroot |-> NoFile, binds |-> l.binds, rootBinds |-> rb + 1, err |-> l.err]
         ELSE [chroot |-> Chroot(root, rootUuid, rootDevice), binds |-> l.binds,
               rootBinds |-> rb + 1, err |-> "nil"]

\* the outcome of "umount root+m": it fails when m is not mounted, when a
\* mount lives below it, or when the kernel refuses (m in failing)
Umount(b, m, failing) ==
    IF m \notin b \/ Below(m) \cap b # {} \/ m \in failing
    THEN [binds |-> b, err |-> "exit status 32"]
    ELSE [binds |-> b \ {m}, err |-> "nil"]

RECURSIVE CloseFrom(_, _, _)
\* the loop of Chroot.Close from index i on; tried lists the mounts whose
\* umount was run, in order
CloseFrom(b, i, failing) ==
    IF i > Len(ReservedMounts) THEN [binds |-> b, err |-> "nil", tried |-> <<>>]
    ELSE LET mount == ReservedMounts[i]
             u == Umount(b, mount, failing) IN
         IF u.err # "nil" THEN [binds |-> u.binds, err |-> u.err, tried |-> <<mount>>]
         ELSE LET rest == CloseFrom(u.binds, i + 1, failing) IN
              [rest EXCEPT !.tried = <<mount>> \o @]

\* Chroot.Close()
Close(b, failing) == CloseFrom(b, 1, failing)

\* what a Close that found the binds b, with the umounts in failing refused,
\* tried and returned
Closed(b, failing) ==
    [kind |-> "close", before |-> b, failing |-> failing,
     tried |-> Close(b, failing).tried, err |-> Close(b, failing).err]

GrubMkconfig == "grub-mkconfig -o /boot/grub/grub.cfg"

\* what a command run by Chroot.Execute leaves in the chroot's root tree
Executed(root, cmd) ==
    IF cmd = GrubMkconfig /\ root.kind = "tree" THEN [root EXCEPT !.grubcfg = TRUE]
    ELSE root

RECURSIVE ExecuteFrom(_, _, _, _)
\* the loop of Chroot.ExecuteCmds from index i on: failCmd is the index of
\* the command whose Execute fails, 0 when none does
ExecuteFrom(root, cmds, i, failCmd) ==
    IF i > Len(cmds) THEN [root |-> root, err |-> "nil"]
    ELSE IF i = failCmd THEN [root |-> root, err |-> "exit status 1"]
    ELSE ExecuteFrom(Executed(root, cmds[i]), cmds, i + 1, failCmd)

\* Chroot.ExecuteCmds(cmds)
ExecuteCmds(f, c, cmds, failCmd) ==
    LET e == ExecuteFrom(Stat(f, c.root), cmds, 1, failCmd) IN
    [fs |-> WriteFile(f, c.root, e.root), err |-> e.err]

\* Stage 7, NewChroot on the new .system/ and its registration
Stage7Chroot ==
    /\ pc = "stage7chroot"
    /\ \E execute \in {"nil", "exit status 1"}, failBind \in 0..Len(ReservedMounts) :
         LET mp == FutureMountPoint
             n == NewChroot(fs, binds, rootBinds, SystemPath(mp), partFuture.Uuid,
                            partFuture.Device, execute, failBind) IN
         /\ binds' = n.binds
         /\ rootBinds' = n.rootBinds
         /\ IF n.err # "nil"
            THEN Return(n.err, "error(10.1)") /\ UNCHANGED <<queue, done>>
            ELSE /\ chroot' = n.chroot
                 /\ queue' = AddToCleanUpQueue(queue, "closeChroot", <<n.chroot>>)
                 /\ done' = done \cup {"chroot"}
                 /\ Goto("stage7cmds")
                 /\ UNCHANGED <<podmanImage, containerFile, uuid>>
    /\ UNCHANGED <<CurImage, registry, mountPoint, fs, tmpDirs, calls, pre,
                   built, drainLog, closeLog>>

\* Stage 7, grub-mkconfig and exit inside the chroot
Stage7Cmds ==
    /\ pc = "stage7cmds"
    /\ \E failCmd \in 0..2 :
         LET e == ExecuteCmds(fs, chroot, <<GrubMkconfig, "exit">>, failCmd) IN
         /\ fs' = e.fs
         /\ IF e.err # "nil"
            THEN Return(e.err, "error(11)") /\ UNCHANGED done
            ELSE /\ done' = done \cup {"mkconfig"}
                 /\ Goto("stage8")
                 /\ UNCHANGED locals
    /\ UNCHANGED <<queue, CurImage, registry, mountPoint, binds, rootBinds, tmpDirs,
                   calls, pre, built, drainLog, closeLog>>

RECURSIVE SyncFrom(_, _, _)
\* the loop of SyncEtc from index i on: failAt is the index of the file whose
\* MergeDiff fails, 0 when none does
SyncFrom(root, i, failAt) ==
    IF i > Len(etcFiles) THEN [root |-> root, err |-> "nil"]
    ELSE IF i = failAt THEN [root |-> root, err |-> "EtcMerge"]
    ELSE SyncFrom([root EXCEPT !.etc = @ \cup {etcFiles[i]}], i + 1, failAt)

\* SyncEtc with the error of MergeDiff lost
SyncEtc_Swallow(f, rootPath, failAt) ==
    LET e == SyncFrom(Stat(f, rootPath), 1, failAt) IN
    [fs |-> WriteFile(f, rootPath, e.root), err |-> "nil"]

\* SyncEtc(systemEtc), systemEtc being etc/ under rootPath
SyncEtc(f, rootPath, failAt) ==
    LET e == SyncFrom(Stat(f, rootPath), 1, failAt) IN
    [fs |-> WriteFile(f, rootPath, e.root), err |-> e.err]

\* the MergeDiff that fails: none, the first, the last
MergeFailures == {0, 1, Len(etcFiles)}

\* Stage 8: SyncEtc(<future>/.system/etc/)
Stage8 ==
    /\ pc = "stage8"
    /\ \E failAt \in MergeFailures :
         LET e == SyncEtc(fs, SystemPath(FutureMountPoint), failAt) IN
         /\ fs' = e.fs
         /\ IF e.err # "nil"
            THEN Return(e.err, "error(12)") /\ UNCHANGED done
            ELSE /\ done' = done \cup {"etc"}
                 /\ Goto("stage9")
                 /\ UNCHANGED locals
    /\ UNCHANGED <<queue, CurImage, registry, mountPoint, binds, rootBinds, tmpDirs,
                   calls, pre, built, drainLog, closeLog>>

\* Stage 9, uuid.New() and os.Mkdir("/tmp/"+uuid): the name is a fresh one
Stage9 ==
    /\ pc = "stage9"
    /\ \E mkdir \in {"nil", "ENOSPC"} :
         LET u == calls IN
         IF u \in tmpDirs \/ mkdir # "nil"
         THEN /\ Return(IF u \in tmpDirs THEN "EEXIST" ELSE mkdir, "error(13)")
              /\ UNCHANGED <<tmpDirs, done>>
         ELSE /\ tmpDirs' = tmpDirs \cup {u}
              /\ uuid' = u
              /\ done' = done \cup {"mkdir"}
              /\ Goto("stage9mount")
              /\ UNCHANGED <<podmanImage, containerFile, chroot>>
    /\ UNCHANGED <<queue, CurImage, registry, mountPoint, fs, binds, rootBinds,
                   calls, pre, built, drainLog, closeLog>>

\* Stage 9, partBoot.Mount("/tmp/"+uuid)
Stage9Mount ==
    /\ pc = "stage9mount"
    /\ \E io \in {"ok", "IO"} :
         LET m == Mount(partBoot.IdentifiedAs, TmpMount(uuid), io) IN
         IF m.err # "nil"
         THEN Return(m.err, "error(14)") /\ UNCHANGED <<mountPoint, done>>
         ELSE /\ mountPoint' = m.mountPoint
              /\ done' = done \cup {"mountBoot"}
              /\ Goto("stage10")
              /\ UNCHANGED locals
    /\ UNCHANGED <<queue, CurImage, registry, fs, binds, rootBinds, tmpDirs,
                   calls, pre, built, drainLog, closeLog>>

\* Stage 10: grub.cfg with grub.cfg.future, then "return nil"
Stage10 ==
    /\ pc = "stage10"
    /\ \E r \in RenameOutcomes :
         LET sw == AtomicSwap(fs, Path(TmpMount(uuid), "grub.cfg"),
                              Path(TmpMount(uuid), "grub.cfg.future"), r) IN
         IF sw.err # "nil"
         THEN Return(sw.err, "error(15)") /\ UNCHANGED <<fs, done>>
         ELSE /\ fs' = sw.fs
              /\ done' = done \cup {"swapGrub"}
              /\ Return("nil", "completed")
    /\ UNCHANGED <<queue, CurImage, registry, mountPoint, binds, rootBinds, tmpDirs,
                   calls, pre, built, drainLog, closeLog>>


(***************************************************************************)
(* RunCleanUpQueue.                                                        *)
(***************************************************************************)
RECURSIVE DrainFrom(_, _, _, _, _, _, _)
\* the loop of RunCleanUpQueue from index i on; io is the outcome of
\* Partition.Unmount on a mounted partition, failing the umounts the kernel
\* refuses inside Chroot.Close; log lists the entries run so far
DrainFrom(q, i, mp, b, io, failing, log) ==
    IF i > Len(q)
    THEN [mountPoint |-> mp, binds |-> b, err |-> "nil", log |-> log]
    ELSE LET f == q[i] IN
         IF f.Name = "umountFuture"
         THEN LET futurePart == f.Values[1]
                  u == Unmount(mp, futurePart.IdentifiedAs, io) IN
              IF u.err # "nil"
              THEN [mountPoint |-> mp, binds |-> b, err |-> u.err,
                    log |-> Append(log, f.Name)]
              ELSE DrainFrom(q, i + 1, u.mountPoint, b, io, failing, Append(log, f.Name))
         ELSE IF f.Name = "closeChroot"
         THEN LET c == Close(b, failing) IN
              IF c.err # "nil"
              THEN [mountPoint |-> mp, binds |-> c.binds, err |-> c.err,
                    log |-> Append(log, f.Name)]
              ELSE DrainFrom(q, i + 1, mp, c.binds, io, failing, Append(log, f.Name))
         ELSE DrainFrom(q, i + 1, mp, b, io, failing, log)

RunCleanUpQueue ==
    /\ pc = "idle"
    /\ \E io \in {"ok", "Busy"}, failing \in {{}, {"/sys"}} :
         LET d == DrainFrom(queue, 1, mountPoint, binds, io, failing, <<>>) IN
         /\ mountPoint' = d.mountPoint
         /\ binds' = d.binds
         /\ drainLog' = d.log
         /\ ret' = d.err
         /\ queue' = IF d.err # "nil" THEN queue ELSE ResetQueue
    /\ lastOp' = "RunCleanUpQueue"
    /\ UNCHANGED <<pc, verbose, CurImage, registry, fs, rootBinds, locals, tmpDirs,
                   calls, pre, done, built, closeLog>>

(***************************************************************************)
(* The environment: the registry starts serving another digest.            *)
(***************************************************************************)
Publish ==
    /\ pc = "idle"
    /\ \E d \in Digests \ {registry} : registry' = d
    /\ lastOp' = "Publish"
    /\ UNCHANGED <<pc, ret, verbose, queue, CurImage, mountPoint, fs, binds,
                   rootBinds, locals, tmpDirs, calls, pre, done, built, drainLog, closeLog>>

(***************************************************************************)
(* The system after NewABSystem, booted from the present root.             *)
(***************************************************************************)
Names == {".system", ".system.new", "abimage.abr", "abimage-new.abr",
          "grub.cfg", "grub.cfg.future"}

Installed(digest) ==
    [n \in Names |->
        IF n = ".system" THEN Tree(digest, <<"RUN", "true">>, {Kernel69, Kernel610})
        ELSE IF n = "abimage.abr" THEN ABImage(digest, fullImageName)
        ELSE NoFile]

BootFiles(future) ==
    [n \in Names |->
        IF n = "grub.cfg" THEN GrubCfg("present")
        ELSE IF n = "grub.cfg.future" THEN future
        ELSE NoFile]

Init ==
    /\ pc = "idle"
    /\ lastOp = "none"
    /\ ret = "none"
    /\ verbose = "none"
    /\ queue = <<>>
    /\ CurImage = "sha:A"
    /\ registry \in Digests
    /\ mountPoint = [p \in Parts |-> IF p = "present" THEN RootMount ELSE NoMount]
    /\ \E future \in {NoFile, GrubCfg("future")} :
         fs = [p \in Parts |->
                 IF p = "present" THEN Installed("sha:A")
                 ELSE IF p = "future" THEN Installed("sha:0")
                 ELSE BootFiles(future)]
    /\ binds = {}
    /\ rootBinds = 0
    /\ podmanImage = "" /\ containerFile = NoFile /\ chroot = NoFile /\ uuid = 0
    /\ tmpDirs = {}
    /\ calls = 0
    /\ pre = [fs |-> fs, mountPoint |-> mountPoint, binds |-> binds,
              rootBinds |-> rootBinds, queue |-> queue, tmpDirs |-> tmpDirs]
    /\ done = {}
    /\ built = NoFile
    /\ drainLog = <<>>
    /\ closeLog = NoClose

Next ==
    \/ Stage0
    \/ Stage1
    \/ Stage2
    \/ Stage3
    \/ Stage4
    \/ Stage5
    \/ Stage6a
    \/ Stage6b
    \/ Stage7
    \/ Stage7Chroot
    \/ Stage7Cmds
    \/ Stage8
    \/ Stage9
    \/ Stage9Mount
    \/ Stage10
    \/ RunCleanUpQueue
    \/ Publish

Spec == Init /\ [][Next]_vars


(***************************************************************************)
(* The chroot session on its own: sessions are opened on the mounted       *)
(* future root and closed, with every choice of umounts the kernel         *)
(* refuses.                                                                *)
(***************************************************************************)
InitChroot ==
    /\ pc = "idle"
    /\ lastOp = "none"
    /\ ret = "none"
    /\ verbose = "none"
    /\ queue = <<>>
    /\ CurImage = "sha:A"
    /\ registry = "sha:A"
    /\ mountPoint = [p \in Parts |->
                        IF p = "present" THEN RootMount
                        ELSE IF p = "future" THEN FutureMount ELSE NoMount]
    /\ fs = [p \in Parts |->
                IF p = "present" THEN Installed("sha:A")
                ELSE IF p = "future" THEN Installed("sha:0")
                ELSE BootFiles(GrubCfg("future"))]
    /\ binds = {}
    /\ rootBinds = 0
    /\ podmanImage = "" /\ containerFile = NoFile /\ chroot = NoFile /\ uuid = 0
    /\ tmpDirs = {}
    /\ calls = 0
    /\ pre = [fs |-> fs, mountPoint |-> mountPoint, binds |-> binds,
              rootBinds |-> rootBinds, queue |-> queue, tmpDirs |-> tmpDirs]
    /\ done = {}
    /\ built = NoFile
    /\ drainLog = <<>>
    /\ closeLog = NoClose

\* NewChroot(<future>/.system/, uuid, device)
OpenSession ==
    /\ rootBinds < MaxOpens
    /\ \E execute \in {"nil", "exit status 1"}, failBind \in 0..Len(ReservedMounts) :
         LET n == NewChroot(fs, binds, rootBinds, SystemPath(FutureMountPoint),
                            partFuture.Uuid, partFuture.Device, execute, failBind) IN
         /\ binds' = n.binds
         /\ rootBinds' = n.rootBinds
         /\ chroot' = IF n.err # "nil" THEN chroot ELSE n.chroot
         /\ ret' = n.err
    /\ lastOp' = "NewChroot"
    /\ UNCHANGED <<pc, verbose, queue, CurImage, registry, mountPoint, fs, podmanImage,
                   containerFile, uuid, tmpDirs, calls, pre, done, built, drainLog,
                   closeLog>>

\* the sets of reserved mounts whose umount the kernel may refuse
Refusals == SUBSET {ReservedMounts[i] : i \in 1..Len(ReservedMounts)}

\* chroot.Close() on a session NewChroot returned
CloseSession ==
    /\ chroot # NoFile
    /\ \E failing \in Refusals :
         LET c == Close(binds, failing) IN
         /\ binds' = c.binds
         /\ ret' = c.err
         /\ closeLog' = Closed(binds, failing)
    /\ lastOp' = "Close"
    /\ UNCHANGED <<pc, verbose, queue, CurImage, registry, mountPoint, fs, rootBinds,
                   locals, tmpDirs, calls, pre, done, built, drainLog>>

NextChroot ==
    \/ OpenSession
    \/ CloseSession

SpecChroot == InitChroot /\ [][NextChroot]_vars

(***************************************************************************)
(* AtomicSwap on its own: exchanges of the names Upgrade exchanges, over   *)
(* every choice of which of them exist.                                    *)
(***************************************************************************)
BootMountPoint == TmpMount(1)

\* what a name can hold when the exchanges start
Holdings(n) ==
    IF n \in {".system", ".system.new"}
    THEN {NoFile} \cup {Tree(d, <<"RUN", "true">>, {Kernel69, Kernel610}) : d \in Digests}
    ELSE IF n = "abimage.abr" THEN {NoFile, ABImage("sha:A", fullImageName)}
    ELSE IF n = "abimage-new.abr" THEN {NoFile, ABImage("sha:B", fullImageName)}
    ELSE IF n = "grub.cfg" THEN {NoFile, GrubCfg("present")}
    ELSE {NoFile, GrubCfg("future")}

FutureNames == {".system", ".system.new", "abimage.abr", "abimage-new.abr"}

InitSwap ==
    /\ pc = "idle"
    /\ lastOp = "none"
    /\ ret = "none"
    /\ verbose = "none"
    /\ queue = <<>>
    /\ CurImage = "sha:A"
    /\ registry = "sha:A"
    /\ mountPoint = [p \in Parts |->
                        IF p = "present" THEN RootMount
                        ELSE IF p = "future" THEN FutureMount ELSE BootMountPoint]
    /\ \E sys \in Holdings(".system"), new \in Holdings(".system.new"),
          abr \in Holdings("abimage.abr"), abrNew \in Holdings("abimage-new.abr"),
          cfg \in Holdings("grub.cfg"), cfgFuture \in Holdings("grub.cfg.future") :
         fs = [p \in Parts |->
                 IF p = "present" THEN Installed("sha:A")
                 ELSE IF p = "future"
                 THEN [n \in Names |->
                          IF n = ".system" THEN sys
                          ELSE IF n = ".system.new" THEN new
                          ELSE IF n = "abimage.abr" THEN abr
                          ELSE IF n = "abimage-new.abr" THEN abrNew
                          ELSE NoFile]
                 ELSE [n \in Names |->
                          IF n = "grub.cfg" THEN cfg
                          ELSE IF n = "grub.cfg.future" THEN cfgFuture
                          ELSE NoFile]]
    /\ binds = {}
    /\ rootBinds = 0
    /\ podmanImage = "" /\ containerFile = NoFile /\ chroot = NoFile /\ uuid = 0
    /\ tmpDirs = {}
    /\ calls = 0
    /\ pre = [fs |-> fs, mountPoint |-> mountPoint, binds |-> binds,
              rootBinds |-> rootBinds, queue |-> queue, tmpDirs |-> tmpDirs]
    /\ done = {}
    /\ built = NoFile
    /\ drainLog = <<>>
    /\ closeLog = NoClose

\* the paths handed to AtomicSwap
SwapPaths ==
    {Path(FutureMountPoint, n) : n \in FutureNames}
        \cup {Path(BootMountPoint, n) : n \in {"grub.cfg", "grub.cfg.future"}}

\* AtomicSwap(src, dst) with absolute paths, as Upgrade calls it
SwapAbsolute ==
    /\ \E src \in SwapPaths, dst \in SwapPaths, r \in RenameOutcomes :
         LET a == AtomicSwap(fs, src, dst, r) IN
         /\ fs' = a.fs
         /\ ret' = a.err
    /\ pre' = [pre EXCEPT !.fs = fs]
    /\ lastOp' = "AtomicSwap"
    /\ UNCHANGED <<pc, verbose, queue, CurImage, registry, mountPoint, binds, rootBinds,
                   locals, tmpDirs, calls, done, built, drainLog, closeLog>>

\* AtomicSwap(src, dst) with paths relative to the working directory
SwapRelative ==
    /\ \E src \in SwapPaths, dst \in SwapPaths :
         LET a == AtomicSwapRelative(fs, src, dst) IN
         /\ fs' = a.fs
         /\ ret' = a.err
    /\ pre' = [pre EXCEPT !.fs = fs]
    /\ lastOp' = "AtomicSwapRelative"
    /\ UNCHANGED <<pc, verbose, queue, CurImage, registry, mountPoint, binds, rootBinds,
                   locals, tmpDirs, calls, done, built, drainLog, closeLog>>

NextSwap ==
    \/ SwapAbsolute
    \/ SwapRelative

SpecSwap == InitSwap /\ [][NextSwap]_vars

(***************************************************************************)
(* Properties.                                                             *)
(***************************************************************************)
\* Upgrade has just returned
Returned == pc = "idle" /\ lastOp = "Upgrade"
Failed == Returned /\ ret # "nil"
Succeeded == Returned /\ ret = "nil"

\* the labels of the failures of stages 1 to 10
StageFailures == {"error(2)", "error(3)", "error(4)", "error(5)", "error(6)", "error(7)",
                  "error(8)", "error(9)", "error(10)", "error(10.1)", "error(11)",
                  "error(12)", "error(13)", "error(14)", "error(15)"}

\* the failures before the first exchange has been made
BeforeCommit == {"error(2)", "error(3)", "error(4)", "error(5)", "error(6)", "error(7)",
                 "error(8)"}

\* the tree stage 4 built, with what stages 7 and 8 add to it
Finished(tree) ==
    [tree EXCEPT !.grubd = TRUE,
                 !.recipe = Recipe(partFuture.IdentifiedAs, partFuture.Uuid,
                                   MaxVersion(tree.kernels, <<>>)),
                 !.grubcfg = TRUE,
                 !.etc = {etcFiles[i] : i \in 1..Len(etcFiles)}]

\* t is the tree stage 4 of this call built, whatever later stages added
IsBuilt(t) ==
    /\ built.kind = "tree"
    /\ t.kind = "tree"
    /\ t.digest = built.digest /\ t.content = built.content /\ t.kernels = built.kernels

\* C1: when Upgrade returns after a failure at a stage 1..10, the future
\* partition it mounted is unmounted and the chroot session it opened is closed
C1_ReleasedOnFailure ==
    (Failed /\ verbose \in StageFailures) =>
        /\ "mountFuture" \in done => mountPoint["future"] = NoMount
        /\ "chroot" \in done => binds = {}

\* C2: when Upgrade returns success the queue is empty, the future partition is
\* unmounted and the chroot session is closed
C2_DrainedOnSuccess ==
    Succeeded => queue = <<>> /\ mountPoint["future"] = NoMount /\ binds = {}

\* C3: in every state of every Upgrade call, the present partition's .system/
\* and abimage.abr are what they were when the call started
C3_PresentUntouched ==
    /\ fs["present"][".system"] = pre.fs["present"][".system"]
    /\ fs["present"]["abimage.abr"] = pre.fs["present"]["abimage.abr"]

C3_Witness ==
    /\ Succeeded
    /\ fs["future"][".system"] # pre.fs["future"][".system"]
    /\ fs["present"][".system"] = Installed("sha:A")[".system"]

\* C4: whenever grub.cfg has been exchanged in the running call, both stage-6
\* exchanges, the recipe, grub-mkconfig, the etc merge and the boot mount are
\* complete; a call that returns an error leaves the boot files as they were
C4_CommitLast ==
    /\ fs["boot"]["grub.cfg"] # pre.fs["boot"]["grub.cfg"] =>
          /\ fs["future"][".system"] = Finished(built)
          /\ fs["future"][".system.new"] = pre.fs["future"][".system"]
          /\ fs["future"]["abimage.abr"] = ABImage(built.digest, fullImageName)
          /\ mountPoint["boot"] # NoMount
          /\ {"swapSystem", "swapABImage", "recipe", "chroot", "mkconfig", "etc",
              "mountBoot"} \subseteq done
    /\ Failed => /\ fs["boot"] = pre.fs["boot"]
                 /\ "swapGrub" \notin done

C4_Witness ==
    /\ fs["boot"]["grub.cfg"] # pre.fs["boot"]["grub.cfg"]
    /\ "swapGrub" \in done

\* C5: whenever the future partition's abimage.abr holds the descriptor of the
\* running call, its .system/ holds the tree that call built
C5_RootfsFirst ==
    (\/ fs["future"]["abimage.abr"] # pre.fs["future"]["abimage.abr"]
     \/ "swapABImage" \in done)
        => /\ IsBuilt(fs["future"][".system"])
           /\ "swapSystem" \in done

C5_Witness ==
    /\ pc = "stage7"
    /\ fs["future"]["abimage.abr"] # pre.fs["future"]["abimage.abr"]
    /\ IsBuilt(fs["future"][".system"])

\* C6: an Upgrade call made while the registry serves the digest of the
\* present root returns "no update available", mounts nothing, changes no
\* file and adds nothing to the queue; made again, it leaves the same state
C6_NoUpdate ==
    [][(pc = "idle" /\ calls' = calls + 1 /\ registry = CurImage) =>
          /\ pc' = "idle"
          /\ ret' = "no update available"
          /\ mountPoint' = mountPoint
          /\ fs' = fs
          /\ binds' = binds /\ rootBinds' = rootBinds /\ tmpDirs' = tmpDirs
          /\ \A i \in 1..Len(queue') : \E j \in 1..Len(queue) : queue'[i] = queue[j]
          /\ (lastOp = "Upgrade" /\ ret = "no update available") =>
                /\ queue' = queue
                /\ <<ret', lastOp', verbose'>> = <<ret, lastOp, verbose>>]_vars

C6_Witness ==
    /\ Returned
    /\ ret = "no update available"
    /\ calls > 1
    /\ pre.queue = <<>>
    /\ pre.fs = fs

\* C7: an Upgrade call that fails before the first exchange is made leaves
\* the future partition's .system/ and abimage.abr and the boot partition's
\* grub.cfg and grub.cfg.future as they were when it started
C7_NoEffectBeforeCommit ==
    (Failed /\ verbose \in BeforeCommit) =>
        /\ fs["future"][".system"] = pre.fs["future"][".system"]
        /\ fs["future"]["abimage.abr"] = pre.fs["future"]["abimage.abr"]
        /\ fs["boot"] = pre.fs["boot"]

C7_Witness ==
    /\ Failed
    /\ verbose = "error(8)"
    /\ fs["future"][".system.new"] # pre.fs["future"][".system.new"]
    /\ fs["future"]["abimage-new.abr"] # pre.fs["future"]["abimage-new.abr"]

\* C8: when the second stage-6 exchange fails, Upgrade returns the error
\* DescriptorMismatch, the rootfs stays exchanged, abimage.abr keeps the old
\* digest and grub.cfg is not exchanged
C8_DescriptorMismatch ==
    (Failed /\ verbose = "error(9)") =>
        /\ ret = "DescriptorMismatch"
        /\ IsBuilt(fs["future"][".system"])
        /\ fs["future"]["abimage.abr"] = pre.fs["future"]["abimage.abr"]
        /\ fs["boot"] = pre.fs["boot"]

\* C9: after a successful Upgrade the future partition's .system/ is the tree
\* stage 4 built, abimage.abr holds the pulled digest, abimage-new.abr the
\* previous descriptor, and grub.cfg and grub.cfg.future have changed places
C9_Installed ==
    Succeeded =>
        /\ IsBuilt(fs["future"][".system"])
        /\ fs["future"][".system"] = Finished(built)
        /\ fs["future"]["abimage.abr"] = ABImage(registry, fullImageName)
        /\ built.digest = registry
        /\ fs["future"]["abimage-new.abr"] = pre.fs["future"]["abimage.abr"]
        /\ fs["boot"]["grub.cfg"] = pre.fs["boot"]["grub.cfg.future"]
        /\ fs["boot"]["grub.cfg.future"] = pre.fs["boot"]["grub.cfg"]

C9_Witness ==
    /\ Succeeded
    /\ fs["future"]["abimage.abr"].digest = "sha:B"
    /\ fs["boot"]["grub.cfg"] = GrubCfg("future")

RECURSIVE Reverse(_)
Reverse(q) == IF q = <<>> THEN <<>> ELSE Append(Reverse(Tail(q)), Head(q))

IsPrefix(a, b) == Len(a) <= Len(b) /\ a = SubSeq(b, 1, Len(a))

\* C10: RunCleanUpQueue runs the entries in the reverse of the order of their
\* registration: closeChroot before umountFuture
C10_Lifo ==
    [][(pc = "idle" /\ lastOp' = "RunCleanUpQueue" /\ registry' = registry) =>
          IsPrefix(drainLog', Reverse([i \in 1..Len(queue) |-> queue[i].Name]))]_vars


AllReserved == {ReservedMounts[i] : i \in 1..Len(ReservedMounts)}

\* C11: Close on a fully opened session, no umount refused, runs the umounts
\* in the reverse of the order of the binds and releases all five
C11_CloseReverse ==
    (lastOp = "Close" /\ closeLog.before = AllReserved /\ closeLog.failing = {}) =>
        /\ closeLog.tried = Reverse(ReservedMounts)
        /\ ret = "nil"
        /\ binds = {}

\* C12: Close runs the umount of every reserved mount whatever fails, and
\* releases every mount whose umount does not fail
C12_CloseContinues ==
    lastOp = "Close" =>
        /\ Len(closeLog.tried) = Len(ReservedMounts)
        /\ \A m \in closeLog.before :
              (m \notin closeLog.failing /\ Below(m) \cap closeLog.before = {})
                 => m \notin binds

Slots == {<<p, n>> : p \in {"future", "boot"}, n \in Names}

\* C13: a step of AtomicSwap leaves every name naming something, changes
\* either nothing or exactly two names, each taking what the other named,
\* and changes nothing when it returns an error
C13_Exchange ==
    [][LET changed == {s \in Slots : fs'[s[1]][s[2]] # fs[s[1]][s[2]]} IN
       /\ \A s \in Slots : (fs'[s[1]][s[2]] = NoFile) <=> (fs[s[1]][s[2]] = NoFile)
       /\ ret' # "nil" => changed = {}
       /\ \/ changed = {}
          \/ \E a \in changed, b \in changed :
                /\ a # b
                /\ changed = {a, b}
                /\ fs'[a[1]][a[2]] = fs[b[1]][b[2]]
                /\ fs'[b[1]][b[2]] = fs[a[1]][a[2]]]_vars

\* an exchange that succeeded and changed what two names name
C13_Witness ==
    /\ lastOp = "AtomicSwap"
    /\ ret = "nil"
    /\ fs # pre.fs

\* a step that is one call of RunCleanUpQueue
DrainStep == pc = "idle" /\ lastOp' = "RunCleanUpQueue" /\ registry' = registry

\* C14: RunCleanUpQueue runs every entry of the queue, whichever of them fail
C14_DrainsAll ==
    [][DrainStep => Len(drainLog') = Len(queue)]_vars

\* C15: an Upgrade call whose NewChroot fails returns with the binds that
\* were in place when it started, the bind of / included
C15_NoBindOutlives ==
    (Returned /\ verbose = "error(10.1)") =>
        /\ binds = pre.binds
        /\ rootBinds = pre.rootBinds

\* C16: the Upgrade call that follows one that failed at stages 2 to 5 finds
\* the future partition free to mount at stage 1
C16_NextNotHindered ==
    [][(Returned /\ verbose \in {"error(5)", "error(6)", "error(7)"}
          /\ calls' = calls + 1 /\ pc' = "stage1")
         => Mount("future", FutureMount, "ok").err = "nil"]_vars

\* the mount or the chroot binds a cleanup entry releases are still in place
Held(f) ==
    IF f.Name = "umountFuture" THEN mountPoint[f.Values[1].IdentifiedAs] # NoMount
    ELSE binds # {}

\* C17: when Upgrade resets the queue, no entry on it has its mount or its
\* chroot binds still in place
C17_NoPendingDiscarded ==
    [][(pc = "idle" /\ calls' = calls + 1) =>
          \A i \in 1..Len(queue) : ~Held(queue[i])]_vars

\* C18: the entries RunCleanUpQueue has run are off the queue when it
\* returns, with an error or without, so that no later call runs them again
C18_ExecutedRemoved ==
    [][DrainStep => Len(queue') <= Len(queue) - Len(drainLog')]_vars

\* C19: with no kernel in the new root, Upgrade fails at stage 7 with the
\* no-kernel error, etc/grub.d not made and no recipe written, both stage-6
\* exchanges made, no chroot opened or registered, grub.cfg not exchanged
C19_NoKernel ==
    (Failed /\ verbose = "error(10)" /\ built # NoFile /\ built.kernels = {}) =>
        /\ ret = "could not get kernel version"
        /\ fs["future"][".system"] = built
        /\ {"swapSystem", "swapABImage"} \subseteq done
        /\ fs["future"]["abimage.abr"] = ABImage(built.digest, fullImageName)
        /\ \A i \in 1..Len(queue) : queue[i].Name # "closeChroot"
        /\ binds = pre.binds
        /\ rootBinds = pre.rootBinds
        /\ fs["boot"] = pre.fs["boot"]

C19_Witness ==
    /\ Failed
    /\ verbose = "error(10)"
    /\ built # NoFile
    /\ built.kernels = {}
    /\ fs["future"][".system"] # pre.fs["future"][".system"]

\* C20: the linux line of a written recipe names a kernel file of the tree,
\* the lexicographically greatest of them
C20_KernelPath ==
    \A n \in {".system", ".system.new"} :
        LET t == fs["future"][n] IN
        (t.kind = "tree" /\ t.recipe # NoFile) =>
            /\ t.recipe.linux \in t.kernels
            /\ \A k \in t.kernels : ~StrLess(t.recipe.linux, k)

====
